---- MODULE Spec2Model ----
(***************************************************************************)
(* Model of the CodeMap page (src/app/page.tsx): the duplicate detector,   *)
(* the function-block segmenter, the address registry and the summon       *)
(* pipeline of the Page component.                                         *)
(*                                                                         *)
(* Conventions                                                             *)
(*  - JavaScript strings are TLA+ strings; the string methods the code     *)
(*    uses (toLowerCase, trim, includes, match) are operators computed     *)
(*    character by character.                                              *)
(*  - An optional JavaScript value (a field that may be undefined) is a    *)
(*    sequence of length at most one: None when unset, Some(v) when set.   *)
(*  - A node's index is a JavaScript number that generateDNAProcesses      *)
(*    sets to i or to i + 0.5.  It is stored in halves: the model value    *)
(*    is twice the JavaScript value (One is 1, Half is 0.5).               *)
(*  - Array positions are zero-based in the code and one-based in TLA+     *)
(*    sequences; every position-valued field (startAddress, endAddress,    *)
(*    addresses, the registry's index) holds the code's zero-based value.  *)
(***************************************************************************)
EXTENDS Integers, Sequences, FiniteSets, TLC

None == <<>>
Some(v) == <<v>>
IsSome(o) == o # <<>>
Get(o) == o[1]

One == 2
Half == 1

-----------------------------------------------------------------------------
(* String primitives                                                       *)

CharAt(s, i) == SubSeq(s, i, i)

UpperCase == "ABCDEFGHIJKLMNOPQRSTUVWXYZ"
LowerCase == "abcdefghijklmnopqrstuvwxyz"
Digits == "0123456789"

\* The lower-case letter of every upper-case letter.
UpperToLower ==
  [c \in {CharAt(UpperCase, k) : k \in 1..26} |->
     CharAt(LowerCase, CHOOSE k \in 1..26 : CharAt(UpperCase, k) = c)]

toLowerChar(c) == IF c \in DOMAIN UpperToLower THEN UpperToLower[c] ELSE c

RECURSIVE toLowerCase(_)
toLowerCase(s) ==
  IF s = "" THEN ""
  ELSE toLowerChar(CharAt(s, 1)) \o toLowerCase(SubSeq(s, 2, Len(s)))

IsWhitespace(c) == c \in {" ", "\t", "\n", "\r"}

RECURSIVE trimStart(_)
trimStart(s) ==
  IF s # "" /\ IsWhitespace(CharAt(s, 1)) THEN trimStart(SubSeq(s, 2, Len(s))) ELSE s

RECURSIVE trimEnd(_)
trimEnd(s) ==
  IF s # "" /\ IsWhitespace(CharAt(s, Len(s))) THEN trimEnd(SubSeq(s, 1, Len(s) - 1)) ELSE s

trim(s) == trimEnd(trimStart(s))

startsWithAt(s, sub, i) ==
  /\ i + Len(sub) - 1 <= Len(s)
  /\ SubSeq(s, i, i + Len(sub) - 1) = sub

startsWith(s, sub) == startsWithAt(s, sub, 1)

includes(s, sub) == \E i \in 1..(Len(s) + 1) : startsWithAt(s, sub, i)

DigitChars == {CharAt(Digits, k) : k \in 1..10}

IsDigit(c) == c \in DigitChars

\* Number.prototype.toString of a number held in halves: 3 is "1.5".
NumToString(h) ==
  IF h % 2 = 0 THEN ToString(h \div 2) ELSE ToString(h \div 2) \o ".5"

-----------------------------------------------------------------------------
(* ProcessNode                                                             *)

ProcessNode(index, command, category, is_fork, fork_type) ==
  [index |-> index, command |-> command, category |-> category,
   is_fork |-> is_fork, fork_type |-> fork_type,
   isDuplicate |-> None, referenceTo |-> None,
   duplicateCount |-> None, references |-> None]

\* process.command?.toLowerCase().trim() || ""
normalizedCommandOf(process) ==
  IF IsSome(process.command) THEN trim(toLowerCase(Get(process.command))) ELSE ""

ArrowMarker == "→"

-----------------------------------------------------------------------------
(* detectCodeDuplicates                                                    *)

\* The keys of codeMap in insertion order: a Map iterates in that order.
RECURSIVE codeMapKeys(_)
codeMapKeys(processes) ==
  IF processes = <<>> THEN <<>>
  ELSE LET front == SubSeq(processes, 1, Len(processes) - 1)
           key == normalizedCommandOf(processes[Len(processes)])
           keys == codeMapKeys(front)
       IN IF \E k \in 1..Len(keys) : keys[k] = key THEN keys ELSE Append(keys, key)

\* codeMap.get(key): the nodes pushed under key, in list order.
codeMapGet(processes, key) ==
  SelectSeq(processes, LAMBDA p : normalizedCommandOf(p) = key)

\* A variant that counts only the later copies in duplicateCount.
primaryNodeCountingCopies(duplicates) ==
  [duplicates[1] EXCEPT !.isDuplicate = Some(FALSE),
                        !.duplicateCount = Some(Len(duplicates) - 1),
                        !.references = Some([k \in 1..(Len(duplicates) - 1) |-> duplicates[k + 1].index])]

primaryNode(duplicates) ==
  [duplicates[1] EXCEPT !.isDuplicate = Some(FALSE),
                        !.duplicateCount = Some(Len(duplicates)),
                        !.references = Some([k \in 1..(Len(duplicates) - 1) |-> duplicates[k + 1].index])]

\* A variant that gives a duplicate a category of its own.
duplicateNodeRecategorized(duplicate, primary, command) ==
  [duplicate EXCEPT !.isDuplicate = Some(TRUE),
                    !.referenceTo = Some(primary.index),
                    !.category = "duplicate",
                    !.command = Some(ArrowMarker \o " REF A" \o NumToString(primary.index + One)
                                     \o ": " \o command)]

duplicateNode(duplicate, primary, command) ==
  [duplicate EXCEPT !.isDuplicate = Some(TRUE),
                    !.referenceTo = Some(primary.index),
                    !.command = Some(ArrowMarker \o " REF A" \o NumToString(primary.index + One)
                                     \o ": " \o command)]

\* A variant that gives a unique node a duplicateCount of 1.
uniqueNodeCounted(process) ==
  [process EXCEPT !.isDuplicate = Some(FALSE), !.duplicateCount = Some(1)]

uniqueNode(process) == [process EXCEPT !.isDuplicate = Some(FALSE)]

\* A variant that does not treat blank commands as copies of each other.
emitGroupSkippingBlank(duplicates, command) ==
  IF Len(duplicates) > 1 /\ command # ""
  THEN <<primaryNode(duplicates)>> \o
       [k \in 1..(Len(duplicates) - 1) |-> duplicateNode(duplicates[k + 1], duplicates[1], command)]
  ELSE [k \in 1..Len(duplicates) |-> uniqueNode(duplicates[k])]

\* What one callback of codeMap.forEach pushes onto uniqueProcesses.
emitGroup(duplicates, command) ==
  IF Len(duplicates) > 1
  THEN <<primaryNode(duplicates)>> \o
       [k \in 1..(Len(duplicates) - 1) |-> duplicateNode(duplicates[k + 1], duplicates[1], command)]
  ELSE <<uniqueNode(duplicates[1])>>

RECURSIVE emitGroups(_, _)
emitGroups(processes, keys) ==
  IF keys = <<>> THEN <<>>
  ELSE emitGroup(codeMapGet(processes, Head(keys)), Head(keys)) \o emitGroups(processes, Tail(keys))

\* Array.prototype.sort with (a, b) => a.index - b.index; the sort is stable.
RECURSIVE insertByIndex(_, _)
insertByIndex(sorted, node) ==
  IF sorted = <<>> THEN <<node>>
  ELSE IF sorted[Len(sorted)].index - node.index <= 0 THEN Append(sorted, node)
  ELSE Append(insertByIndex(SubSeq(sorted, 1, Len(sorted) - 1), node), sorted[Len(sorted)])

\* A variant that returns the nodes in the order the groups were emitted.
sortByIndexSkipped(nodes) == nodes

RECURSIVE sortByIndex(_)
sortByIndex(nodes) ==
  IF nodes = <<>> THEN <<>>
  ELSE insertByIndex(sortByIndex(SubSeq(nodes, 1, Len(nodes) - 1)), nodes[Len(nodes)])

detectCodeDuplicates(processes) ==
  sortByIndex(emitGroups(processes, codeMapKeys(processes)))

-----------------------------------------------------------------------------
(* detectFunctionBlocks and createLineComposition                          *)

\* A variant that numbers addresses from zero.
lineRefZeroBased(addressIndex) == "a" \o ToString(addressIndex)

\* `a${i + 1}` for a zero-based position i.
lineRefOf(addressIndex) == "a" \o ToString(addressIndex + 1)

\* A variant that also records the empty normalized command.
lineMapOfWithBlank(processes) ==
  LET commands == {normalizedCommandOf(processes[i]) : i \in 1..Len(processes)}
  IN [c \in commands |->
        (CHOOSE i \in 1..Len(processes) :
            /\ normalizedCommandOf(processes[i]) = c
            /\ \A j \in 1..(i - 1) : normalizedCommandOf(processes[j]) # c) - 1]

\* The first forEach of detectFunctionBlocks: the zero-based position of the
\* first node of every non-empty normalized command.
lineMapOf(processes) ==
  LET commands == {normalizedCommandOf(processes[i]) : i \in 1..Len(processes)} \ {""}
  IN [c \in commands |->
        (CHOOSE i \in 1..Len(processes) :
            /\ normalizedCommandOf(processes[i]) = c
            /\ \A j \in 1..(i - 1) : normalizedCommandOf(processes[j]) # c) - 1]

lineMapGet(lineMap, command) ==
  IF command \in DOMAIN lineMap THEN Some(lineMap[command]) ELSE None

\* Array.from({ length }, (_, i) => start + i)
arrayFrom(length, start) == [i \in 1..length |-> start + i - 1]

\* firstOccurrence !== undefined && firstOccurrence < addressIndex
hasEarlierOccurrence(addressIndex, processes, lineMap) ==
  LET firstOccurrence == lineMapGet(lineMap, normalizedCommandOf(processes[addressIndex + 1]))
  IN IsSome(firstOccurrence) /\ Get(firstOccurrence) < addressIndex

\* A variant that forgets the + 1 in the reference of the first occurrence.
optimizedRefOfZeroBased(addressIndex, processes, lineMap) ==
  IF hasEarlierOccurrence(addressIndex, processes, lineMap)
  THEN "a" \o ToString(lineMap[normalizedCommandOf(processes[addressIndex + 1])])
  ELSE lineRefOf(addressIndex)

\* The reference pushed onto optimizedLines for one address of a block.
optimizedRefOf(addressIndex, processes, lineMap) ==
  IF hasEarlierOccurrence(addressIndex, processes, lineMap)
  THEN lineRefOf(lineMap[normalizedCommandOf(processes[addressIndex + 1])])
  ELSE lineRefOf(addressIndex)

\* A variant that leaves replaced lines out of optimizedLines.
createLineCompositionCompacted(addresses, processes, lineMap) ==
  LET originalLines == [k \in 1..Len(addresses) |-> lineRefOf(addresses[k])]
      kept == SelectSeq(addresses, LAMBDA a : ~hasEarlierOccurrence(a, processes, lineMap))
      optimizedLines == [k \in 1..Len(kept) |-> lineRefOf(kept[k])]
      replaced == {k \in 1..Len(addresses) : hasEarlierOccurrence(addresses[k], processes, lineMap)}
  IN [lineComposition |-> optimizedLines,
      originalLines |-> originalLines,
      optimizedLines |-> optimizedLines,
      duplicateReplacements |->
        [r \in {originalLines[k] : k \in replaced} |->
           optimizedRefOf(addresses[CHOOSE k \in replaced : originalLines[k] = r], processes, lineMap)]]

createLineComposition(addresses, processes, lineMap) ==
  LET originalLines == [k \in 1..Len(addresses) |-> lineRefOf(addresses[k])]
      optimizedLines == [k \in 1..Len(addresses) |-> optimizedRefOf(addresses[k], processes, lineMap)]
      replaced == {k \in 1..Len(addresses) : hasEarlierOccurrence(addresses[k], processes, lineMap)}
  IN [lineComposition |-> optimizedLines,
      originalLines |-> originalLines,
      optimizedLines |-> optimizedLines,
      duplicateReplacements |->
        [r \in {originalLines[k] : k \in replaced} |->
           optimizedLines[CHOOSE k \in replaced : originalLines[k] = r]]]

isFunctionStart(process) ==
  process.category = "function" \/ process.fork_type = "function_call"

isReturnOrMerge(process) ==
  \/ IsSome(process.command) /\ includes(Get(process.command), "return")
  \/ process.fork_type = "merge"

\* String.prototype.replace(/def |function /, ""): the leftmost match is removed.
replaceDefOrFunction(s) ==
  LET matchAt(i) == startsWithAt(s, "def ", i) \/ startsWithAt(s, "function ", i)
  IN IF \E i \in 1..Len(s) : matchAt(i)
     THEN LET i == CHOOSE i \in 1..Len(s) : matchAt(i) /\ \A j \in 1..(i - 1) : ~matchAt(j)
              len == IF startsWithAt(s, "def ", i) THEN 4 ELSE 9
          IN SubSeq(s, 1, i - 1) \o SubSeq(s, i + len, Len(s))
     ELSE s

blockNameOf(process, number) ==
  LET replaced == IF IsSome(process.command) THEN replaceDefOrFunction(Get(process.command)) ELSE ""
  IN IF replaced # "" THEN replaced ELSE "Function " \o ToString(number)

\* A variant that starts the block after the function-start node.
openBlockAfterStart(process, index, blocks) ==
  [id |-> "func-" \o ToString(Len(blocks) + 1),
   name |-> blockNameOf(process, Len(blocks) + 1),
   startAddress |-> index + 1,
   category |-> IF process.category # "" THEN process.category ELSE "general",
   description |-> "Function block starting at A" \o ToString(index + 1)]

\* The partial block assigned to currentBlock at a function-start node.
openBlock(process, index, blocks) ==
  [id |-> "func-" \o ToString(Len(blocks) + 1),
   name |-> blockNameOf(process, Len(blocks) + 1),
   startAddress |-> index,
   category |-> IF process.category # "" THEN process.category ELSE "general",
   description |-> "Function block starting at A" \o ToString(index + 1)]

\* The FunctionBlock pushed when currentBlock is closed at endAddress.
closeBlock(currentBlock, endAddress, processes, lineMap) ==
  LET blockAddresses == arrayFrom(endAddress - currentBlock.startAddress + 1, currentBlock.startAddress)
      composition == createLineComposition(blockAddresses, processes, lineMap)
  IN [id |-> currentBlock.id,
      name |-> currentBlock.name,
      startAddress |-> currentBlock.startAddress,
      category |-> currentBlock.category,
      description |-> currentBlock.description,
      endAddress |-> endAddress,
      addresses |-> blockAddresses,
      lineComposition |-> composition.lineComposition,
      originalLines |-> composition.originalLines,
      optimizedLines |-> composition.optimizedLines,
      duplicateReplacements |-> composition.duplicateReplacements]

\* A variant that closes the open block at the function-start node itself.
functionStartStepInclusive(st, process, index, processes, lineMap) ==
  IF isFunctionStart(process)
  THEN LET blocks == IF IsSome(st.currentBlock)
                     THEN Append(st.blocks, closeBlock(Get(st.currentBlock), index, processes, lineMap))
                     ELSE st.blocks
       IN [blocks |-> blocks, currentBlock |-> Some(openBlock(process, index, blocks))]
  ELSE st

\* A variant that numbers the new block before the open one is pushed.
functionStartStepNumberedBeforeClose(st, process, index, processes, lineMap) ==
  IF isFunctionStart(process)
  THEN LET blocks == IF IsSome(st.currentBlock)
                     THEN Append(st.blocks, closeBlock(Get(st.currentBlock), index - 1, processes, lineMap))
                     ELSE st.blocks
       IN [blocks |-> blocks, currentBlock |-> Some(openBlock(process, index, st.blocks))]
  ELSE st

\* A variant that opens no block while one is open.
functionStartStepIgnoringNested(st, process, index, processes, lineMap) ==
  IF isFunctionStart(process) /\ st.currentBlock = None
  THEN [blocks |-> st.blocks, currentBlock |-> Some(openBlock(process, index, st.blocks))]
  ELSE st

\* The function-start branch of the second forEach, at zero-based position index.
functionStartStep(st, process, index, processes, lineMap) ==
  IF isFunctionStart(process)
  THEN LET blocks == IF IsSome(st.currentBlock)
                     THEN Append(st.blocks, closeBlock(Get(st.currentBlock), index - 1, processes, lineMap))
                     ELSE st.blocks
       IN [blocks |-> blocks, currentBlock |-> Some(openBlock(process, index, blocks))]
  ELSE st

\* A variant that pushes the closed block and leaves currentBlock set.
returnStepKeepingOpen(st, process, index, processes, lineMap) ==
  IF isReturnOrMerge(process) /\ IsSome(st.currentBlock)
  THEN [blocks |-> Append(st.blocks, closeBlock(Get(st.currentBlock), index, processes, lineMap)),
        currentBlock |-> st.currentBlock]
  ELSE st

\* A variant that closes the open block before the return node.
returnStepExclusive(st, process, index, processes, lineMap) ==
  IF isReturnOrMerge(process) /\ IsSome(st.currentBlock)
  THEN [blocks |-> Append(st.blocks, closeBlock(Get(st.currentBlock), index - 1, processes, lineMap)),
        currentBlock |-> None]
  ELSE st

\* The return/merge branch of the second forEach.
returnStep(st, process, index, processes, lineMap) ==
  IF isReturnOrMerge(process) /\ IsSome(st.currentBlock)
  THEN [blocks |-> Append(st.blocks, closeBlock(Get(st.currentBlock), index, processes, lineMap)),
        currentBlock |-> None]
  ELSE st

\* A variant that makes the return/merge check before the function-start check.
RECURSIVE segmentUpToReturnFirst(_, _, _)
segmentUpToReturnFirst(processes, lineMap, count) ==
  IF count = 0 THEN [blocks |-> <<>>, currentBlock |-> None]
  ELSE LET before == segmentUpToReturnFirst(processes, lineMap, count - 1)
           process == processes[count]
           index == count - 1
       IN functionStartStep(returnStep(before, process, index, processes, lineMap),
                            process, index, processes, lineMap)

\* The state of the second forEach after the first count nodes.
RECURSIVE segmentUpTo(_, _, _)
segmentUpTo(processes, lineMap, count) ==
  IF count = 0 THEN [blocks |-> <<>>, currentBlock |-> None]
  ELSE LET before == segmentUpTo(processes, lineMap, count - 1)
           process == processes[count]
           index == count - 1
       IN returnStep(functionStartStep(before, process, index, processes, lineMap),
                     process, index, processes, lineMap)

detectFunctionBlocks(processes) ==
  LET lineMap == lineMapOf(processes)
      st == segmentUpTo(processes, lineMap, Len(processes))
  IN IF IsSome(st.currentBlock)
     THEN Append(st.blocks, closeBlock(Get(st.currentBlock), Len(processes) - 1, processes, lineMap))
     ELSE st.blocks

-----------------------------------------------------------------------------
(* buildAddressRegistry                                                    *)

\* The length of the longest run of digits of s that starts at position i.
RECURSIVE digitRun(_, _)
digitRun(s, i) ==
  IF i <= Len(s) /\ IsDigit(CharAt(s, i)) THEN 1 + digitRun(s, i + 1) ELSE 0

\* String.prototype.match(/a\d+/g): the matches from position i on, left to
\* right, each taking as many digits as follow and the scan resuming after it.
RECURSIVE matchAddresses(_, _)
matchAddresses(s, i) ==
  IF i > Len(s) THEN <<>>
  ELSE IF CharAt(s, i) = "a" /\ digitRun(s, i + 1) > 0
       THEN <<SubSeq(s, i, i + digitRun(s, i + 1))>> \o matchAddresses(s, i + 1 + digitRun(s, i + 1))
       ELSE matchAddresses(s, i + 1)

\* A variant that keeps the node's own address among its dependencies.
dependenciesOfKeepingSelf(node, addressId) ==
  IF IsSome(node.command) /\ Get(node.command) # ""
  THEN matchAddresses(Get(node.command), 1)
  ELSE <<>>

dependenciesOf(node, addressId) ==
  IF IsSome(node.command) /\ Get(node.command) # ""
  THEN SelectSeq(matchAddresses(Get(node.command), 1), LAMBDA addr : addr # addressId)
  ELSE <<>>

\* The registry object: a function from the address strings a1..an to entries.
\* executionFunction closes over addressId, node and index and is modelled by
\* the summon actions.
buildAddressRegistry(processes) ==
  [addressId \in {lineRefOf(index) : index \in 0..(Len(processes) - 1)} |->
     LET index == CHOOSE index \in 0..(Len(processes) - 1) : lineRefOf(index) = addressId
         node == processes[index + 1]
     IN [node |-> node, index |-> index, dependencies |-> dependenciesOf(node, addressId)]]

-----------------------------------------------------------------------------
(* generateDNAProcesses and categorizeCode                                 *)

includesAny(s, subs) == \E sub \in subs : includes(s, sub)

\* The rules of categorizeCode in order: the first rule one of whose keywords
\* the trimmed, lower-cased line includes gives the category.
CategoryRules ==
  << [keywords |-> {"def ", "function ", "class "}, category |-> "function"],
     [keywords |-> {"if ", "else", "switch"}, category |-> "control"],
     [keywords |-> {"for ", "while ", "do "}, category |-> "loop"],
     [keywords |-> {"import ", "require(", "#include"}, category |-> "import"],
     [keywords |-> {"return ", "yield "}, category |-> "return"],
     [keywords |-> {"try ", "catch ", "except"}, category |-> "error_handling"],
     [keywords |-> {"console.log", "print(", "echo"}, category |-> "debug"],
     [keywords |-> {"//", "#", "/*"}, category |-> "comment"],
     [keywords |-> {"+", "-", "*", "/"}, category |-> "math"],
     [keywords |-> {"fetch", "axios", "http"}, category |-> "api"],
     [keywords |-> {"crypto", "hash", "encrypt"}, category |-> "crypto"],
     [keywords |-> {"analyze", "report", "metrics"}, category |-> "analysis"],
     [keywords |-> {"ai", "model", "predict"}, category |-> "ai"],
     [keywords |-> {"execute", "run ", "process"}, category |-> "execution"],
     [keywords |-> {"validate", "check", "assert"}, category |-> "validation"] >>

categorizeCode(line) ==
  LET trimmed == toLowerCase(trim(line))
      matching == {r \in 1..Len(CategoryRules) : includesAny(trimmed, CategoryRules[r].keywords)}
  IN IF matching = {} THEN "general"
     ELSE CategoryRules[CHOOSE r \in matching : \A q \in matching : r <= q].category

\* The nodes pushed for the line at zero-based position index: none for a
\* blank or comment line, otherwise the line's node and its background node,
\* whose index is index + 0.5.
nodesOfLine(line, index) ==
  LET trimmed == trim(line)
      is_fork == includes(trimmed, "if") \/ includes(trimmed, "for") \/ includes(trimmed, "while")
      fork_type == IF is_fork THEN (IF includes(trimmed, "if") THEN "conditional" ELSE "loop") ELSE "null"
  IN IF trimmed = "" \/ startsWith(trimmed, "//") \/ startsWith(trimmed, "#")
     THEN <<>>
     ELSE << ProcessNode(index * One, Some(trimmed), categorizeCode(trimmed), is_fork, fork_type),
             ProcessNode(index * One + Half, Some("// Background: " \o trimmed), "subprocess",
                         is_fork, fork_type) >>

RECURSIVE generateDNAProcesses(_)
generateDNAProcesses(lines) ==
  IF lines = <<>> THEN <<>>
  ELSE generateDNAProcesses(SubSeq(lines, 1, Len(lines) - 1))
         \o nodesOfLine(lines[Len(lines)], Len(lines) - 1)

-----------------------------------------------------------------------------
(* isCodeFile, analyzeFile and the totals of processMultipleFiles          *)
(* A file's content is held as the lines of content.split("\n").          *)

endsWith(s, sub) == Len(sub) <= Len(s) /\ SubSeq(s, Len(s) - Len(sub) + 1, Len(s)) = sub

codeExtensions ==
  {".js", ".ts", ".jsx", ".tsx", ".py", ".java", ".cpp", ".c", ".cs", ".php", ".rb", ".go",
   ".rs", ".swift", ".kt"}

isCodeFile(filename) == \E ext \in codeExtensions : endsWith(toLowerCase(filename), ext)

\* const batchSize = 10
batchSize == 10

\* batches.push(files.slice(i, i + batchSize)) for i = 0, batchSize, ...
batchesOf(files) ==
  [b \in 1..((Len(files) + batchSize - 1) \div batchSize) |->
     SubSeq(files, (b - 1) * batchSize + 1,
            IF b * batchSize < Len(files) THEN b * batchSize ELSE Len(files))]

\* content.split("\n").filter((line) => line.trim())
analysedLines(content) == SelectSeq(content, LAMBDA line : trim(line) # "")

\* The keys of lineMap in insertion order.
RECURSIVE lineCountKeys(_)
lineCountKeys(lines) ==
  IF lines = <<>> THEN <<>>
  ELSE LET keys == lineCountKeys(SubSeq(lines, 1, Len(lines) - 1))
           normalized == toLowerCase(trim(lines[Len(lines)]))
       IN IF \E k \in 1..Len(keys) : keys[k] = normalized THEN keys ELSE Append(keys, normalized)

\* lineMap.get(key): the number of lines whose normalized text is key.
lineCountOf(lines, key) ==
  Cardinality({k \in 1..Len(lines) : toLowerCase(trim(lines[k])) = key})

\* A variant that counts every line of a repeated text.
duplicatesOfCountWhole(count) == IF count > 1 THEN count ELSE 0

\* (count > 1 ? count - 1 : 0)
duplicatesOfCount(count) == IF count > 1 THEN count - 1 ELSE 0

\* Array.from(lineMap.values()).reduce((sum, count) => sum + ..., 0)
RECURSIVE reduceDuplicates(_, _)
reduceDuplicates(lines, keys) ==
  IF keys = <<>> THEN 0
  ELSE reduceDuplicates(lines, SubSeq(keys, 1, Len(keys) - 1))
         + duplicatesOfCount(lineCountOf(lines, keys[Len(keys)]))

\* analyzeFile, with the fields computed from the line counts (the file's
\* name and type, the categories and the percentages are left out).
analyzeFile(content) ==
  LET lines == analysedLines(content)
      duplicateLines == reduceDuplicates(lines, lineCountKeys(lines))
  IN [totalLines |-> Len(lines),
      duplicateLines |-> duplicateLines,
      uniqueLines |-> Len(lines) - duplicateLines]

\* totalLines += analysis.totalLines; totalDuplicates += analysis.duplicateLines
addToTotals(totals, analysis) ==
  [totalLines |-> totals.totalLines + analysis.totalLines,
   totalDuplicates |-> totals.totalDuplicates + analysis.duplicateLines]

RECURSIVE totalsOf(_)
totalsOf(fileAnalyses) ==
  IF fileAnalyses = <<>> THEN [totalLines |-> 0, totalDuplicates |-> 0]
  ELSE addToTotals(totalsOf(SubSeq(fileAnalyses, 1, Len(fileAnalyses) - 1)),
                   fileAnalyses[Len(fileAnalyses)])

\* The ProjectAnalysis that processMultipleFiles builds from the contents of
\* its files.
projectAnalysisOf(fileContents) ==
  LET fileAnalyses == [k \in 1..Len(fileContents) |-> analyzeFile(fileContents[k])]
      totals == totalsOf(fileAnalyses)
  IN [totalFiles |-> Len(fileContents),
      totalLines |-> totals.totalLines,
      totalDuplicates |-> totals.totalDuplicates,
      fileAnalyses |-> fileAnalyses]

-----------------------------------------------------------------------------
(* The Page component: registry lookup, summonAddress, the terminal        *)

\* The own properties every object literal inherits from Object.prototype.
\* The registry is created as {} and is read with registry[addressId], so a
\* lookup of one of these names yields an inherited function or object.
ObjectPrototypeKeys ==
  {"constructor", "toString", "toLocaleString", "valueOf", "hasOwnProperty",
   "isPrototypeOf", "propertyIsEnumerable", "__proto__"}

\* addressRegistry[addressId]: an entry, an inherited value (truthy, without
\* node, dependencies or executionFunction), or undefined.
registryLookup(registry, addressId) ==
  IF addressId \in DOMAIN registry THEN "entry"
  ELSE IF addressId \in ObjectPrototypeKeys THEN "inherited"
  ELSE "undefined"

\* setTerminalOutput((prev) => [...prev, output]); the id and timestamp of an
\* output line, both taken from Date.now(), are left out.
addTerminalOutput(terminal, type, content) ==
  Append(terminal, [type |-> type, content |-> content])

\* prev.map((c) => (c.timestamp === timestamp ? { ...c, status } : c))
setCallStatus(calls, timestamp, status) ==
  [k \in 1..Len(calls) |->
     IF calls[k].timestamp = timestamp THEN [calls[k] EXCEPT !.status = status] ELSE calls[k]]

\* prev.filter((addr) => addr !== addressId)
removeSummon(active, addressId) == SelectSeq(active, LAMBDA addr : addr # addressId)

commandTextOf(node) == IF IsSome(node.command) THEN Get(node.command) ELSE "undefined"

\* summonAddress(addressId) up to its first await, called at time timestamp by
\* origin with the registry of the caller's render.  page holds the state the
\* call updates; the result is the updated state and whether the call has
\* returned null already or is waiting for executionFunction.
summonAddress(page, registry, addressId, origin, timestamp) ==
  LET found == registryLookup(registry, addressId)
      summoning == addTerminalOutput(page.terminalOutput, "system",
                                     "Summoning address " \o addressId \o "...")
      call == [addressId |-> addressId, timestamp |-> timestamp, status |-> "summoning",
               dependencies |-> IF found = "entry" THEN Some(registry[addressId].dependencies) ELSE None]
      appended == Append(page.pipelineCalls, call)
  IN CASE found = "undefined" ->
            [page |-> [page EXCEPT !.terminalOutput =
                         addTerminalOutput(@, "error", "Address " \o addressId \o " not found in registry")],
             result |-> "null"]
       [] found = "inherited" ->
            \* registryEntry.node is undefined: reading its command throws
            \* inside the try block, after the call was marked executing.
            [page |-> [page EXCEPT
                         !.pipelineCalls = setCallStatus(setCallStatus(appended, timestamp, "executing"),
                                                         timestamp, "failed"),
                         !.activeSummons = removeSummon(Append(@, addressId), addressId),
                         !.terminalOutput = addTerminalOutput(summoning, "error", addressId \o " failed: TypeError"),
                         !.now = timestamp],
             result |-> "null"]
       [] found = "entry" ->
            [page |-> [page EXCEPT
                         !.pipelineCalls = setCallStatus(appended, timestamp, "executing"),
                         !.activeSummons = Append(@, addressId),
                         !.terminalOutput =
                           addTerminalOutput(summoning, "system",
                             "Executing " \o addressId \o ": " \o commandTextOf(registry[addressId].node)),
                         !.currentExecutingLine = Some(registry[addressId].index),
                         !.summons = Append(@, [addressId |-> addressId, timestamp |-> timestamp,
                                                origin |-> origin,
                                                index |-> registry[addressId].index,
                                                node |-> registry[addressId].node]),
                         !.now = timestamp],
             result |-> "pending"]

\* The rest of summonAddress, run when the timer of executionFunction fires:
\* the call is marked completed and the finally block removes the address.
finishSummon(page, k) ==
  LET task == page.summons[k]
  IN [page EXCEPT
        !.currentExecutingLine = None,
        !.pipelineCalls = setCallStatus(@, task.timestamp, "completed"),
        !.terminalOutput = addTerminalOutput(@, "output",
                             task.addressId \o " completed: Executed: " \o commandTextOf(task.node)),
        !.activeSummons = removeSummon(@, task.addressId),
        !.summons = SubSeq(@, 1, k - 1) \o SubSeq(@, k + 1, Len(@)),
        !.now = IF @ > task.timestamp THEN @ ELSE task.timestamp + 1]

\* String.prototype.split(" ")
RECURSIVE splitOnSpace(_)
splitOnSpace(s) ==
  IF \E i \in 1..Len(s) : CharAt(s, i) = " "
  THEN LET i == CHOOSE i \in 1..Len(s) : CharAt(s, i) = " " /\ \A j \in 1..(i - 1) : CharAt(s, j) # " "
       IN <<SubSeq(s, 1, i - 1)>> \o splitOnSpace(SubSeq(s, i + 1, Len(s)))
  ELSE <<s>>

\* /^a\d+$/.test(cmd)
isAddressInput(cmd) ==
  /\ Len(cmd) >= 2
  /\ CharAt(cmd, 1) = "a"
  /\ \A i \in 2..Len(cmd) : IsDigit(CharAt(cmd, i))

\* executeTerminalCommand(command) up to its first await, for the commands
\* that summon an address, clear, version, and a bare word that falls through
\* to eval and throws a ReferenceError.
executeTerminalCommand(page, registry, command, timestamp) ==
  LET echoed == [page EXCEPT !.terminalOutput = addTerminalOutput(@, "input", "> " \o command)]
      tokens == splitOnSpace(trim(command))
      cmd == tokens[1]
      args == Tail(tokens)
      hasArg == Len(args) >= 1 /\ args[1] # ""
      notFound(address) ==
        [echoed EXCEPT !.terminalOutput = addTerminalOutput(@, "error", "Address " \o address \o " not found")]
      lookupAndSummon(from, address) ==
        IF registryLookup(registry, address) # "undefined"
        THEN summonAddress(from, registry, address, "terminal", timestamp).page
        ELSE notFound(address)
  IN CASE isAddressInput(cmd) -> lookupAndSummon(echoed, cmd)
       [] ~isAddressInput(cmd) /\ cmd = "run" /\ hasArg -> lookupAndSummon(echoed, args[1])
       [] ~isAddressInput(cmd) /\ cmd = "summon" /\ hasArg ->
            IF registryLookup(registry, args[1]) # "undefined"
            THEN summonAddress([echoed EXCEPT !.terminalOutput =
                                  addTerminalOutput(@, "system", "Summoning " \o args[1] \o "...")],
                               registry, args[1], "terminal", timestamp).page
            ELSE notFound(args[1])
       [] cmd = "version" ->
            [echoed EXCEPT !.terminalOutput = addTerminalOutput(@, "output", "CodeMap DNA v1.0.0")]
       [] cmd = "clear" -> [echoed EXCEPT !.terminalOutput = <<>>]
       [] OTHER ->
            [echoed EXCEPT !.terminalOutput =
               addTerminalOutput(@, "error", "Error: ReferenceError: " \o command \o " is not defined")]

-----------------------------------------------------------------------------
(* The detectors applied to a node list                                    *)

VARIABLES
  input,          \* the node list handed to the detectors
  tagged,         \* detectCodeDuplicates(input)
  rawBlocks,      \* detectFunctionBlocks(input)
  taggedBlocks,   \* detectFunctionBlocks(tagged), as processMultipleFiles calls it
  builtRegistry,  \* buildAddressRegistry(input)
  stage           \* which of the results above have been computed

detectVars == <<input, tagged, rawBlocks, taggedBlocks, builtRegistry, stage>>

MaxLen == 3

\* The shapes of node the input lists are made of: a plain line, the same line
\* in another case and with blanks around it, a function start, a return line,
\* a merge node without a command, a call node with a blank command, and a
\* function start whose command is Return with a capital, which includes
\* "return" only once it is lower-cased.
NodeTemplates ==
  { [command |-> Some("x"), category |-> "general", fork_type |-> "null"],
    [command |-> Some(" X"), category |-> "general", fork_type |-> "null"],
    [command |-> Some("def f"), category |-> "function", fork_type |-> "null"],
    [command |-> Some("return"), category |-> "return", fork_type |-> "null"],
    [command |-> None, category |-> "general", fork_type |-> "merge"],
    [command |-> Some(" "), category |-> "general", fork_type |-> "function_call"],
    [command |-> Some("Return"), category |-> "function", fork_type |-> "null"] }

\* The index values of an input in ascending order, in halves: 0, 0.5, 1 and
\* then 2, 3, ..., so that a list holds whole and fractional indices and a gap.
indexValue(k) == IF k <= 3 THEN k - 1 ELSE (k - 2) * One

\* The orders in which a list of n nodes carries these index values: in list
\* order, in reverse, and rotated by one place.
IndexOrders(n) ==
  { [k \in 1..n |-> k], [k \in 1..n |-> n + 1 - k], [k \in 1..n |-> (k % n) + 1] }

IndexAssignments(n) == { [k \in 1..n |-> indexValue(order[k])] : order \in IndexOrders(n) }

InputLists ==
  UNION { { [k \in 1..n |->
               ProcessNode(idx[k], t[k].command, t[k].category,
                           t[k].fork_type # "null", t[k].fork_type)] :
             t \in [1..n -> NodeTemplates], idx \in IndexAssignments(n) } :
          n \in 0..MaxLen }

DetectCodeDuplicates ==
  /\ stage = "input"
  /\ tagged' = detectCodeDuplicates(input)
  /\ stage' = "tagged"
  /\ UNCHANGED <<input, rawBlocks, taggedBlocks, builtRegistry>>

DetectFunctionBlocks ==
  /\ stage = "tagged"
  /\ rawBlocks' = detectFunctionBlocks(input)
  /\ stage' = "segmented"
  /\ UNCHANGED <<input, tagged, taggedBlocks, builtRegistry>>

\* processMultipleFiles: detectFunctionBlocks(detectCodeDuplicates(processes))
DetectTaggedBlocks ==
  /\ stage = "segmented"
  /\ taggedBlocks' = detectFunctionBlocks(tagged)
  /\ stage' = "pipeline"
  /\ UNCHANGED <<input, tagged, rawBlocks, builtRegistry>>

BuildAddressRegistry ==
  /\ stage = "pipeline"
  /\ builtRegistry' = buildAddressRegistry(input)
  /\ stage' = "registry"
  /\ UNCHANGED <<input, tagged, rawBlocks, taggedBlocks>>

-----------------------------------------------------------------------------
(* The state of the Page component and its handlers                        *)

VARIABLES
  spiralNodes,           \* useState: the node list on display
  functionBlocks,        \* useState: the blocks of the node list
  addressRegistry,       \* useState: the registry of the last rebuild
  pipelineCalls,         \* useState: the pipeline call records
  activeSummons,         \* useState: the addresses shown as being summoned
  runningBlock,          \* useState: the block a block run is executing
  currentExecutingLine,  \* useState: the position executionFunction highlights
  terminalOutput,        \* useState: the lines of the terminal
  summons,               \* the summonAddress calls waiting for executionFunction
  run,                   \* the runFromHere call in progress, if any
  runTrace,              \* the summons the last block run started and saw end
  now,                   \* the last value Date.now() returned
  ops,                   \* the number of user operations so far
  isAnalyzing,           \* useState: the analyzing indicator is shown
  projectAnalysis,       \* useState: the analysis of the last files processed
  inputCode,             \* useState: the text on display, as its lines
  upload                 \* the upload handler in progress, if any

pageVars == <<spiralNodes, functionBlocks, addressRegistry, pipelineCalls, activeSummons,
              runningBlock, currentExecutingLine, terminalOutput, summons, run, runTrace,
              now, ops, isAnalyzing, projectAnalysis, inputCode, upload>>

uploadVars == <<isAnalyzing, projectAnalysis, inputCode, upload>>

summonVars == <<pipelineCalls, activeSummons, runningBlock, currentExecutingLine, terminalOutput,
                summons, run, runTrace, now>>

vars == <<detectVars, pageVars>>

MaxOps == 3

\* generateSampleData: the eight nodes shown after mount (coords left out).
sampleProcesses ==
  << [address |-> "A1", command |-> Some("calculate_sum"), category |-> "math"],
     [address |-> "A2", command |-> Some("if market_open"), category |-> "control",
      is_fork |-> TRUE, fork_type |-> "if"],
     [address |-> "A3", command |-> Some("fetch_data"), category |-> "data"],
     [address |-> "A4", command |-> Some("process_results"), category |-> "data"],
     [address |-> "A5", command |-> Some("save_output"), category |-> "data"],
     [address |-> "A6", command |-> Some("for item in list"), category |-> "control",
      is_fork |-> TRUE, fork_type |-> "for"],
     [address |-> "A7", command |-> Some("validate_input"), category |-> "validation"],
     [address |-> "A8", command |-> Some("transform_data"), category |-> "data"] >>

\* The files a user analyses, as the lines of content.split("\n"): three
\* identical function lines, and a file of a comment and a blank line.
FilePool ==
  { <<"def f", "def f", "def f">>,
    <<"# notes", "">> }

\* The commands typed into the terminal.
CommandPool ==
  {"a1", "a9", "summon a9", "run constructor"}

\* The zero-based positions of the nodes whose Summon button the user clicks.
ButtonPool == {1}

pageOf ==
  [pipelineCalls |-> pipelineCalls, activeSummons |-> activeSummons,
   terminalOutput |-> terminalOutput, currentExecutingLine |-> currentExecutingLine,
   summons |-> summons, now |-> now]

setPage(page) ==
  /\ pipelineCalls' = page.pipelineCalls
  /\ activeSummons' = page.activeSummons
  /\ terminalOutput' = page.terminalOutput
  /\ currentExecutingLine' = page.currentExecutingLine
  /\ summons' = page.summons
  /\ now' = page.now

\* The state after the mount effect and the registry effect have run, but
\* for the upload in progress.
MountedInit ==
  /\ spiralNodes = sampleProcesses
  /\ functionBlocks = <<>>
  /\ addressRegistry = buildAddressRegistry(sampleProcesses)
  /\ pipelineCalls = <<>>
  /\ activeSummons = <<>>
  /\ runningBlock = None
  /\ currentExecutingLine = None
  /\ terminalOutput = <<>>
  /\ summons = <<>>
  /\ run = None
  /\ runTrace = [block |-> None, events |-> <<>>]
  /\ now = 0
  /\ ops = 0
  /\ projectAnalysis = None
  /\ inputCode = <<"">>

\* The state after the mount effect and the registry effect have run.
PageInit ==
  /\ MountedInit
  /\ isAnalyzing = FALSE
  /\ upload = None

DetectIdle ==
  /\ input = <<>>
  /\ tagged = <<>>
  /\ rawBlocks = <<>>
  /\ taggedBlocks = <<>>
  /\ builtRegistry = <<>>
  /\ stage = "none"

Init == PageInit /\ DetectIdle

\* The values Date.now() may return to a handler started by the user: the
\* value it returned last or a later one.  When no call record carries the
\* last value the two cases differ only by a shift of the clock, and the
\* later one is taken.
clockReadings ==
  IF \E k \in 1..Len(pipelineCalls) : pipelineCalls[k].timestamp = now
  THEN {now, now + 1}
  ELSE {now + 1}

\* The buttons are disabled while a block runs or an address is being summoned.
buttonsEnabled == runningBlock = None /\ activeSummons = <<>>

\* A variant that runs the block's original lines.
runAddressesOriginal(block) == block.originalLines

\* The addresses a block run summons: for (const addr of blockToRun.optimizedLines)
runAddressesOf(block) == block.optimizedLines

\* handleFileUpload: processMultipleFiles on one file, from the analysis of
\* the file to the state updates, followed by the effect on spiralNodes that
\* rebuilds the registry when the list is not empty.
AnalyzeFile(lines) ==
  LET processes == generateDNAProcesses(lines)
      processedNodes == detectCodeDuplicates(processes)
      blocks == detectFunctionBlocks(processedNodes)
  IN /\ ops < MaxOps
     /\ spiralNodes' = processedNodes
     /\ functionBlocks' = blocks
     /\ addressRegistry' = IF Len(processedNodes) > 0 THEN buildAddressRegistry(processedNodes)
                           ELSE addressRegistry
     /\ projectAnalysis' = Some(projectAnalysisOf(<<lines>>))
     /\ isAnalyzing' = FALSE
     /\ inputCode' = lines
     /\ ops' = ops + 1
     /\ UNCHANGED <<pipelineCalls, activeSummons, runningBlock, currentExecutingLine,
                    terminalOutput, summons, run, runTrace, now, upload>>

\* Enter in the terminal: executeTerminalCommand(terminalInput).
TerminalCommand(command) ==
  /\ ops < MaxOps
  /\ \E timestamp \in clockReadings :
       setPage(executeTerminalCommand(pageOf, addressRegistry, command, timestamp))
  /\ ops' = ops + 1
  /\ UNCHANGED <<spiralNodes, functionBlocks, addressRegistry, runningBlock, run, runTrace>>

\* The Summon button of the node at zero-based position index.
SummonButton(index) ==
  /\ ops < MaxOps
  /\ buttonsEnabled
  /\ \E timestamp \in clockReadings :
       setPage(summonAddress(pageOf, addressRegistry, lineRefOf(index), "button", timestamp).page)
  /\ ops' = ops + 1
  /\ UNCHANGED <<spiralNodes, functionBlocks, addressRegistry, runningBlock, run, runTrace>>

\* The events a block run records for one summon: its start, and its end when
\* the call returned without waiting.
runEvents(addr, result) ==
  IF result = "pending" THEN << <<"start", addr>> >>
  ELSE << <<"start", addr>>, <<"end", addr>> >>

\* The Summon Block button of a block: runFromHere(block.startAddress) up to
\* its first await.
RunFromHere(startIndex) ==
  LET found == {b \in 1..Len(functionBlocks) : functionBlocks[b].startAddress = startIndex}
  IN /\ ops < MaxOps
     /\ buttonsEnabled
     /\ ops' = ops + 1
     /\ \E timestamp \in clockReadings :
          IF found # {}
          THEN LET blockToRun == functionBlocks[CHOOSE b \in found : \A c \in found : b <= c]
                   addr == runAddressesOf(blockToRun)[1]
                   first == summonAddress(pageOf, addressRegistry, addr, "run", timestamp)
               IN /\ runningBlock' = Some(blockToRun)
                  /\ setPage(first.page)
                  /\ run' = Some([block |-> blockToRun, registry |-> addressRegistry, position |-> 1,
                                  phase |-> IF first.result = "pending" THEN "summoning" ELSE "delay"])
                  /\ runTrace' = [block |-> Some(blockToRun), events |-> runEvents(addr, first.result)]
          ELSE /\ setPage(summonAddress(pageOf, addressRegistry, lineRefOf(startIndex), "button", timestamp).page)
               /\ UNCHANGED <<runningBlock, run, runTrace>>
     /\ UNCHANGED <<spiralNodes, functionBlocks, addressRegistry>>

\* The timer of an executionFunction fires and the summon that awaited it ends.
SummonFinish(k) ==
  /\ k \in 1..Len(summons)
  /\ setPage(finishSummon(pageOf, k))
  /\ IF summons[k].origin = "run"
     THEN /\ run' = Some([Get(run) EXCEPT !.phase = "delay"])
          /\ runTrace' = [runTrace EXCEPT !.events = Append(@, <<"end", summons[k].addressId>>)]
     ELSE UNCHANGED <<run, runTrace>>
  /\ UNCHANGED <<spiralNodes, functionBlocks, addressRegistry, runningBlock, ops>>

\* The 200 ms timer of a block run fires: the loop summons the next address,
\* or the run ends with setRunningBlock(null).
RunDelayDone ==
  /\ IsSome(run)
  /\ Get(run).phase = "delay"
  /\ LET r == Get(run)
         addresses == runAddressesOf(r.block)
     IN IF r.position < Len(addresses)
        THEN LET addr == addresses[r.position + 1]
                 next == summonAddress(pageOf, r.registry, addr, "run", now + 1)
             IN /\ setPage(next.page)
                /\ run' = Some([r EXCEPT !.position = @ + 1,
                                         !.phase = IF next.result = "pending" THEN "summoning" ELSE "delay"])
                /\ runTrace' = [runTrace EXCEPT !.events = @ \o runEvents(addr, next.result)]
                /\ UNCHANGED runningBlock
        ELSE /\ runningBlock' = None
             /\ run' = None
             /\ UNCHANGED <<pipelineCalls, activeSummons, terminalOutput, currentExecutingLine,
                            summons, now, runTrace>>
  /\ UNCHANGED <<spiralNodes, functionBlocks, addressRegistry, ops>>

\* The archives a user uploads: one that loadAsync rejects; one without a code
\* file (a directory with a code extension and a text file); one whose code
\* file follows a text file; one of two code files; one of eleven code
\* files, whose eleventh differs from the first ten.
ArchivePool ==
  { [corrupt |-> TRUE, entries |-> <<>>],
    [corrupt |-> FALSE,
     entries |-> << [name |-> "lib.js/", dir |-> TRUE, content |-> <<"">>],
                    [name |-> "notes.md", dir |-> FALSE, content |-> <<"def f">>] >>],
    [corrupt |-> FALSE,
     entries |-> << [name |-> "notes.md", dir |-> FALSE, content |-> <<"# notes">>],
                    [name |-> "Main.PY", dir |-> FALSE, content |-> <<"def f", "", " DEF F">>] >>],
    [corrupt |-> FALSE,
     entries |-> << [name |-> "a.js", dir |-> FALSE, content |-> <<"x", "x", "X ">>],
                    [name |-> "b.ts", dir |-> FALSE, content |-> <<"x", "return x">>] >>],
    [corrupt |-> FALSE,
     entries |-> [k \in 1..(batchSize + 1) |->
                    [name |-> "f" \o ToString(k) \o ".py", dir |-> FALSE,
                     content |-> IF k <= batchSize THEN <<"y">> ELSE <<"def g">>]]] }

\* The files a user selects or drops that are not an archive.
UploadPool ==
  { << [name |-> "notes.md", content |-> <<"# notes", "">>] >>,
    << [name |-> "a.py", content |-> <<"def f", "def f">>],
       [name |-> "b.py", content |-> <<"", "Def f">>] >> }

\* The code files of an archive, in the order of its entries:
\* if (!zipEntry.dir && isCodeFile(filename)) files.push(extractedFile)
extractedFiles(archive) ==
  LET kept == SelectSeq(archive.entries, LAMBDA entry : ~entry.dir /\ isCodeFile(entry.name))
  IN [k \in 1..Len(kept) |-> [name |-> kept[k].name, content |-> kept[k].content]]

contentsOf(files) == [k \in 1..Len(files) |-> files[k].content]

\* handleZipFile up to its first await: setIsAnalyzing(true).
UploadArchive(archive) ==
  /\ ops < MaxOps
  /\ upload = None
  /\ isAnalyzing' = TRUE
  /\ upload' = Some([kind |-> "zip", archive |-> Some(archive), batches |-> <<>>, batch |-> 0,
                     phase |-> "loading"])
  /\ ops' = ops + 1
  /\ UNCHANGED <<spiralNodes, functionBlocks, addressRegistry, projectAnalysis, inputCode>>
  /\ UNCHANGED summonVars

\* handleFileUploadMultiple on files that are not an archive:
\* processMultipleFiles(files) up to its first await.
UploadFiles(files) ==
  /\ ops < MaxOps
  /\ upload = None
  /\ Len(files) > 0
  /\ ~endsWith(toLowerCase(files[1].name), ".zip")
  /\ isAnalyzing' = TRUE
  /\ upload' = Some([kind |-> "files", archive |-> None, batches |-> <<files>>, batch |-> 1,
                     phase |-> "reading"])
  /\ ops' = ops + 1
  /\ UNCHANGED <<spiralNodes, functionBlocks, addressRegistry, projectAnalysis, inputCode>>
  /\ UNCHANGED summonVars

\* zip.loadAsync has settled.  When it rejects, or when the archive holds no
\* code file, handleZipFile goes to its finally block; otherwise the files
\* are extracted and processMultipleFiles starts on the first batch.
ZipLoaded ==
  /\ IsSome(upload)
  /\ Get(upload).phase = "loading"
  /\ LET archive == Get(Get(upload).archive)
         batches == batchesOf(extractedFiles(archive))
     IN IF archive.corrupt \/ batches = <<>>
        THEN /\ isAnalyzing' = FALSE
             /\ upload' = None
        ELSE /\ isAnalyzing' = TRUE
             /\ upload' = Some([Get(upload) EXCEPT !.batches = batches, !.batch = 1,
                                                   !.phase = "reading"])
  /\ UNCHANGED <<spiralNodes, functionBlocks, addressRegistry, projectAnalysis, inputCode, ops>>
  /\ UNCHANGED summonVars

\* processMultipleFiles after the files were read: every file is analysed,
\* then setProjectAnalysis(projectAnalysis) and setIsAnalyzing(false).
FilesRead ==
  /\ IsSome(upload)
  /\ Get(upload).phase = "reading"
  /\ projectAnalysis' = Some(projectAnalysisOf(contentsOf(Get(upload).batches[Get(upload).batch])))
  /\ isAnalyzing' = FALSE
  /\ upload' = Some([Get(upload) EXCEPT !.phase = "first"])
  /\ UNCHANGED <<spiralNodes, functionBlocks, addressRegistry, inputCode, ops>>
  /\ UNCHANGED summonVars

\* processMultipleFiles after files[0] was read again: the nodes, the blocks
\* and the input text are set from it, and the effect on spiralNodes
\* rebuilds the registry when the list is not empty.  handleZipFile then
\* waits for its delay between batches.
FirstFileRead ==
  /\ IsSome(upload)
  /\ Get(upload).phase = "first"
  /\ LET firstFileContent == Get(upload).batches[Get(upload).batch][1].content
         processes == generateDNAProcesses(firstFileContent)
         processedNodes == detectCodeDuplicates(processes)
         blocks == detectFunctionBlocks(processedNodes)
     IN /\ spiralNodes' = processedNodes
        /\ functionBlocks' = blocks
        /\ inputCode' = firstFileContent
        /\ addressRegistry' = IF Len(processedNodes) > 0 THEN buildAddressRegistry(processedNodes)
                              ELSE addressRegistry
  /\ upload' = IF Get(upload).kind = "zip" THEN Some([Get(upload) EXCEPT !.phase = "delay"])
               ELSE None
  /\ UNCHANGED <<isAnalyzing, projectAnalysis, ops>>
  /\ UNCHANGED summonVars

\* The delay after a batch has passed: processMultipleFiles starts on the
\* next batch, or after the last batch the finally block runs.
BatchDelayDone ==
  /\ IsSome(upload)
  /\ Get(upload).phase = "delay"
  /\ IF Get(upload).batch < Len(Get(upload).batches)
     THEN /\ isAnalyzing' = TRUE
          /\ upload' = Some([Get(upload) EXCEPT !.batch = @ + 1, !.phase = "reading"])
     ELSE /\ isAnalyzing' = FALSE
          /\ upload' = None
  /\ UNCHANGED <<spiralNodes, functionBlocks, addressRegistry, projectAnalysis, inputCode, ops>>
  /\ UNCHANGED summonVars

UploadNext ==
  \/ \E archive \in ArchivePool : UploadArchive(archive) /\ UNCHANGED detectVars
  \/ \E files \in UploadPool : UploadFiles(files) /\ UNCHANGED detectVars
  \/ ZipLoaded /\ UNCHANGED detectVars
  \/ FilesRead /\ UNCHANGED detectVars
  \/ FirstFileRead /\ UNCHANGED detectVars
  \/ BatchDelayDone /\ UNCHANGED detectVars

\* The uploads of archives and of files, one at a time, from the state after
\* mount.
SpecUpload == Init /\ [][UploadNext]_vars

\* The lines of the files handed to processMultipleFiles alone: a line, the
\* same line in another case and with a space, a blank line and a second
\* line.
LinePool == {"x", " X", "", "y"}

ContentPool == UNION { [1..n -> LinePool] : n \in 1..MaxLen }

\* One file, or one file followed by a second one.
AnalysisInputs ==
  { << [name |-> "a.py", content |-> content] >> : content \in ContentPool }
    \cup { << [name |-> "a.py", content |-> content], [name |-> "b.py", content |-> second] >> :
             content \in ContentPool, second \in { <<"x", "x">>, <<"", "y">> } }

\* Files were selected after mount and processMultipleFiles waits for their
\* contents.
AnalysisInit ==
  /\ MountedInit
  /\ DetectIdle
  /\ isAnalyzing = TRUE
  /\ upload \in { Some([kind |-> "files", archive |-> None, batches |-> <<files>>, batch |-> 1,
                         phase |-> "reading"]) : files \in AnalysisInputs }

AnalysisNext == FilesRead /\ UNCHANGED detectVars

SpecAnalysis == AnalysisInit /\ [][AnalysisNext]_vars

Next ==
  \/ \E lines \in FilePool : AnalyzeFile(lines) /\ UNCHANGED detectVars
  \/ \E command \in CommandPool : TerminalCommand(command) /\ UNCHANGED <<detectVars, uploadVars>>
  \/ \E index \in ButtonPool \cap (0..(Len(spiralNodes) - 1)) : SummonButton(index) /\ UNCHANGED <<detectVars, uploadVars>>
  \/ \E b \in 1..Len(functionBlocks) : RunFromHere(functionBlocks[b].startAddress) /\ UNCHANGED <<detectVars, uploadVars>>
  \/ \E k \in 1..Len(summons) : SummonFinish(k) /\ UNCHANGED <<detectVars, uploadVars>>
  \/ RunDelayDone /\ UNCHANGED <<detectVars, uploadVars>>

Spec == Init /\ [][Next]_vars

\* The timers of setTimeout fire: a pending executionFunction resolves and the
\* delay of a block run ends.
SpecFair ==
  /\ Spec
  /\ WF_vars(\E k \in 1..Len(summons) : SummonFinish(k) /\ UNCHANGED <<detectVars, uploadVars>>)
  /\ WF_vars(RunDelayDone /\ UNCHANGED <<detectVars, uploadVars>>)

DetectNext ==
  \/ DetectCodeDuplicates /\ UNCHANGED pageVars
  \/ DetectFunctionBlocks /\ UNCHANGED pageVars
  \/ DetectTaggedBlocks /\ UNCHANGED pageVars
  \/ BuildAddressRegistry /\ UNCHANGED pageVars

\* A node list is handed to the detectors; the page stays as it is after mount.
DetectInit ==
  /\ input \in InputLists
  /\ tagged = <<>>
  /\ rawBlocks = <<>>
  /\ taggedBlocks = <<>>
  /\ builtRegistry = <<>>
  /\ stage = "input"
  /\ PageInit

SpecDetect == DetectInit /\ [][DetectNext]_vars

\* The commands of the node lists handed to buildAddressRegistry alone: no
\* command, an empty one, one address, a repeated address, an address of two
\* digits next to another inside a word, text without a lower-case address,
\* and addresses written without a gap.
DependencyCommands ==
  { None, Some(""), Some("a1"), Some("a2 a2"), Some("xa10a3"), Some("A1 a b2a"), Some("a1a2a1") }

RegistryInputs ==
  UNION { { [k \in 1..n |-> ProcessNode((k - 1) * One, c[k], "general", FALSE, "null")] :
             c \in [1..n -> DependencyCommands] } :
          n \in 0..MaxLen }

\* A node list is handed to buildAddressRegistry; the page stays as it is
\* after mount.
RegistryInit ==
  /\ input \in RegistryInputs
  /\ tagged = <<>>
  /\ rawBlocks = <<>>
  /\ taggedBlocks = <<>>
  /\ builtRegistry = <<>>
  /\ stage = "pipeline"
  /\ PageInit

RegistryNext == BuildAddressRegistry /\ UNCHANGED pageVars

SpecRegistry == RegistryInit /\ [][RegistryNext]_vars

HasTagged == stage \in {"tagged", "segmented", "pipeline", "registry"}
HasRawBlocks == stage \in {"segmented", "pipeline", "registry"}
HasTaggedBlocks == stage \in {"pipeline", "registry"}
HasRegistry == stage = "registry"

-----------------------------------------------------------------------------
(* Properties of detectCodeDuplicates                                      *)

IsAscendingByIndex(nodes) ==
  \A j, k \in 1..Len(nodes) : j < k => nodes[j].index < nodes[k].index

IndicesOf(nodes) == {nodes[k].index : k \in 1..Len(nodes)}

\* The index values of the input nodes whose normalized command is command.
GroupIndices(command) ==
  {input[k].index : k \in {j \in 1..Len(input) : normalizedCommandOf(input[j]) = command}}

InputCommands == {normalizedCommandOf(input[k]) : k \in 1..Len(input)}

\* The elements of a finite set of numbers as an ascending sequence.
AscendingSeq(S) ==
  CHOOSE f \in [1..Cardinality(S) -> S] : \A j, k \in 1..Cardinality(S) : j < k => f[j] < f[k]

Least(S) == CHOOSE m \in S : \A x \in S : m <= x

\* The node of the detector's output that carries the index value idx.
TaggedAt(idx) == tagged[CHOOSE k \in 1..Len(tagged) : tagged[k].index = idx]

\* C1: for an input ordered by index, in every group of k > 1 nodes with the
\* same normalized command the node of least index i1 is the primary
\* (isDuplicate false, duplicateCount k, references the other indices in
\* ascending order) and every other node of the group is a duplicate whose
\* referenceTo is i1.
C1_PrimaryAndDuplicates ==
  (HasTagged /\ IsAscendingByIndex(input)) =>
    \A command \in InputCommands :
      LET group == GroupIndices(command)
          i1 == Least(group)
      IN Cardinality(group) > 1 =>
           /\ TaggedAt(i1).isDuplicate = Some(FALSE)
           /\ TaggedAt(i1).duplicateCount = Some(Cardinality(group))
           /\ TaggedAt(i1).references = Some(AscendingSeq(group \ {i1}))
           /\ \A i \in group \ {i1} :
                /\ TaggedAt(i).isDuplicate = Some(TRUE)
                /\ TaggedAt(i).referenceTo = Some(i1)

C1_Witness ==
  /\ HasTagged
  /\ IsAscendingByIndex(input)
  /\ \E command \in InputCommands : Cardinality(GroupIndices(command)) >= 3

\* C2: the output of detectCodeDuplicates has the length of the input, holds
\* exactly the input's index values, and is in strictly ascending index order.
C2_SortedByIndex ==
  HasTagged =>
    /\ Len(tagged) = Len(input)
    /\ IndicesOf(tagged) = IndicesOf(input)
    /\ IsAscendingByIndex(tagged)

\* An input that is not in index order and whose groups are emitted in an
\* order that differs from the index order.
C2_Witness ==
  /\ HasTagged
  /\ Len(input) >= 3
  /\ ~IsAscendingByIndex(input)
  /\ ~IsAscendingByIndex(emitGroups(input, codeMapKeys(input)))

\* C3: a node whose normalized command occurs once in the input comes out
\* with isDuplicate false and with referenceTo, duplicateCount and references
\* unset.
C3_UniqueUntagged ==
  HasTagged =>
    \A command \in InputCommands :
      Cardinality(GroupIndices(command)) = 1 =>
        LET node == TaggedAt(Least(GroupIndices(command)))
        IN /\ node.isDuplicate = Some(FALSE)
           /\ node.referenceTo = None
           /\ node.duplicateCount = None
           /\ node.references = None

C3_Witness ==
  /\ HasTagged
  /\ \E command \in InputCommands : Cardinality(GroupIndices(command)) = 1
  /\ \E command \in InputCommands : Cardinality(GroupIndices(command)) = 2

\* The node of the input that carries the index value idx.
InputAt(idx) == input[CHOOSE k \in 1..Len(input) : input[k].index = idx]

\* The text of a command as it stands in the node, before normalization.
OriginalTextOf(node) == IF node.command = None THEN "" ELSE node.command[1]

\* C13: every node tagged as a duplicate has its command rewritten to the
\* arrow marker, " REF A" and the primary's index plus one, ": ", and the
\* duplicate's own command text as it was before normalization; the command
\* of every other node is the one it had in the input.
C13_ReferenceKeepsOriginalText ==
  (HasTagged /\ IsAscendingByIndex(input)) =>
    \A k \in 1..Len(tagged) :
      LET node == tagged[k]
          original == InputAt(node.index)
      IN IF node.isDuplicate = Some(TRUE)
         THEN node.command =
                Some(ArrowMarker \o " REF A" \o NumToString(Get(node.referenceTo) + One)
                     \o ": " \o OriginalTextOf(original))
         ELSE node.command = original.command

\* A command that is absent, empty or made of whitespace only.
IsBlankCommand(node) ==
  \/ node.command = None
  \/ \A i \in 1..Len(node.command[1]) : SubSeq(node.command[1], i, i) \in {" ", "\t", "\n", "\r"}

\* The places of the input, in list order, that hold a blank command.
BlankPlaces == {k \in 1..Len(input) : IsBlankCommand(input[k])}

\* C17: when two or more nodes of the input have a blank, whitespace-only or
\* absent command, the first of them is tagged primary with duplicateCount
\* equal to their number, and every later one is tagged isDuplicate with
\* referenceTo set to the first one's index.
C17_BlankCommandsGrouped ==
  (HasTagged /\ Cardinality(BlankPlaces) >= 2) =>
    LET first == Least(BlankPlaces)
    IN /\ TaggedAt(input[first].index).isDuplicate = Some(FALSE)
       /\ TaggedAt(input[first].index).duplicateCount = Some(Cardinality(BlankPlaces))
       /\ \A k \in BlankPlaces \ {first} :
            /\ TaggedAt(input[k].index).isDuplicate = Some(TRUE)
            /\ TaggedAt(input[k].index).referenceTo = Some(input[first].index)

\* Three blank nodes, one without a command and one with a whitespace-only
\* command.
C17_Witness ==
  /\ HasTagged
  /\ Cardinality(BlankPlaces) >= 3
  /\ \E k \in BlankPlaces : input[k].command = None
  /\ \E k \in BlankPlaces : input[k].command = Some(" ")

\* C27: the output node that carries an input node's index has that node's
\* category, is_fork and fork_type, and its command unless it is tagged as a
\* duplicate; the output holds one node per input node.
C27_OnlyTagsAndDuplicateCommands ==
  HasTagged =>
    /\ Len(tagged) = Len(input)
    /\ \A k \in 1..Len(input) :
         \E j \in 1..Len(tagged) :
           /\ tagged[j].index = input[k].index
           /\ tagged[j].category = input[k].category
           /\ tagged[j].is_fork = input[k].is_fork
           /\ tagged[j].fork_type = input[k].fork_type
           /\ tagged[j].isDuplicate # Some(TRUE) => tagged[j].command = input[k].command

\* A list out of index order with a duplicate that is a function start.
C27_Witness ==
  /\ HasTagged
  /\ ~IsAscendingByIndex(input)
  /\ \E j \in 1..Len(tagged) :
       tagged[j].isDuplicate = Some(TRUE) /\ tagged[j].category = "function"
  /\ \E j \in 1..Len(tagged) : tagged[j].duplicateCount = Some(2)

-----------------------------------------------------------------------------
(* Properties of detectFunctionBlocks                                      *)

\* The zero-based position in the tagged list of the node that carries idx.
TaggedPositionOf(idx) == (CHOOSE k \in 1..Len(tagged) : tagged[k].index = idx) - 1

\* C4: in the pipeline detectFunctionBlocks(detectCodeDuplicates(list)), at
\* every block address whose node is tagged isDuplicate, optimizedLines holds
\* the address of the node's primary and duplicateReplacements maps the
\* duplicate's address to it.
C4_DuplicatesReplacedByPrimary ==
  HasTaggedBlocks =>
    \A b \in 1..Len(taggedBlocks) :
      \A k \in 1..Len(taggedBlocks[b].addresses) :
        LET block == taggedBlocks[b]
            a == block.addresses[k]
            node == tagged[a + 1]
            own == "a" \o ToString(a + 1)
            primary == "a" \o ToString(TaggedPositionOf(Get(node.referenceTo)) + 1)
        IN node.isDuplicate = Some(TRUE) =>
             /\ block.optimizedLines[k] = primary
             /\ own \in DOMAIN block.duplicateReplacements
             /\ block.duplicateReplacements[own] = primary

\* C5: the blocks of detectFunctionBlocks are in ascending order and pairwise
\* disjoint: each block starts after the previous block's end.
BlocksDisjoint(blocks) ==
  /\ \A b \in 1..(Len(blocks) - 1) : blocks[b + 1].startAddress > blocks[b].endAddress
  /\ \A b, c \in 1..Len(blocks) :
       b # c => {blocks[b].addresses[k] : k \in 1..Len(blocks[b].addresses)}
                  \cap {blocks[c].addresses[k] : k \in 1..Len(blocks[c].addresses)} = {}

C5_BlocksDisjoint ==
  /\ HasRawBlocks => BlocksDisjoint(rawBlocks)
  /\ HasTaggedBlocks => BlocksDisjoint(taggedBlocks)

C5_Witness ==
  /\ HasTaggedBlocks
  /\ Len(rawBlocks) >= 2
  /\ \E b \in 1..(Len(rawBlocks) - 1) : rawBlocks[b + 1].startAddress = rawBlocks[b].endAddress + 1
  /\ Len(taggedBlocks) >= 2

\* Math.round((1 - optimizedLines.length / originalLines.length) * 100), the
\* efficiency shown for a block; the quotient is rounded half up.
efficiencyReduction(block) ==
  LET original == Len(block.originalLines)
      optimized == Len(block.optimizedLines)
  IN (2 * 100 * (original - optimized) + original) \div (2 * original)

\* C6: in every block originalLines, optimizedLines and addresses have the
\* same non-zero length endAddress - startAddress + 1, and the efficiency
\* reduction is 0.
BlockLengthsEqual(block) ==
  /\ Len(block.addresses) = block.endAddress - block.startAddress + 1
  /\ Len(block.addresses) > 0
  /\ Len(block.originalLines) = Len(block.addresses)
  /\ Len(block.optimizedLines) = Len(block.addresses)
  /\ efficiencyReduction(block) = 0

C6_EqualLengths ==
  /\ HasRawBlocks => \A b \in 1..Len(rawBlocks) : BlockLengthsEqual(rawBlocks[b])
  /\ HasTaggedBlocks => \A b \in 1..Len(taggedBlocks) : BlockLengthsEqual(taggedBlocks[b])

\* A block in which a line is replaced by an earlier one.
C6_Witness ==
  /\ HasRawBlocks
  /\ \E b \in 1..Len(rawBlocks) :
       /\ Len(rawBlocks[b].addresses) >= 2
       /\ DOMAIN rawBlocks[b].duplicateReplacements # {}

\* C7: a list whose node 0 is its only function-start node and whose last
\* node is its only return/merge node yields exactly one block, from 0 to
\* n - 1.
IsStartNode(node) == node.category = "function" \/ node.fork_type = "function_call"

IsEndNode(node) ==
  \/ node.fork_type = "merge"
  \/ node.command # None /\ \E i \in 1..Len(node.command[1]) :
                              i + 5 <= Len(node.command[1]) /\ SubSeq(node.command[1], i, i + 5) = "return"

SingleFunctionShape(nodes) ==
  /\ Len(nodes) >= 1
  /\ \A k \in 1..Len(nodes) : IsStartNode(nodes[k]) <=> k = 1
  /\ \A k \in 1..Len(nodes) : IsEndNode(nodes[k]) <=> k = Len(nodes)

C7_SingleBlock ==
  (HasRawBlocks /\ SingleFunctionShape(input)) =>
    /\ Len(rawBlocks) = 1
    /\ rawBlocks[1].startAddress = 0
    /\ rawBlocks[1].endAddress = Len(input) - 1
    /\ rawBlocks[1].addresses = [k \in 1..Len(input) |-> k - 1]

C7_Witness ==
  /\ HasRawBlocks
  /\ SingleFunctionShape(input)
  /\ Len(input) >= 3

\* The zero-based position of the first node of nodes whose normalized
\* command is that of the node at zero-based position i.
EarliestPosition(nodes, i) ==
  (CHOOSE e \in 1..Len(nodes) :
     /\ normalizedCommandOf(nodes[e]) = normalizedCommandOf(nodes[i + 1])
     /\ \A j \in 1..(e - 1) : normalizedCommandOf(nodes[j]) # normalizedCommandOf(nodes[i + 1])) - 1

AddressOf(i) == "a" \o ToString(i + 1)

\* The entry of optimizedLines and of duplicateReplacements for the address
\* at place k of block, when the line is replaced by position e or kept.
ReplacedBy(block, k, e) ==
  /\ block.optimizedLines[k] = AddressOf(e)
  /\ AddressOf(block.addresses[k]) \in DOMAIN block.duplicateReplacements
  /\ block.duplicateReplacements[AddressOf(block.addresses[k])] = AddressOf(e)

KeptAsIs(block, k) ==
  /\ block.optimizedLines[k] = AddressOf(block.addresses[k])
  /\ AddressOf(block.addresses[k]) \notin DOMAIN block.duplicateReplacements

\* The statement of C11 as written, for the blocks of a node list.
EarliestReplaces(nodes, blocks) ==
  \A b \in 1..Len(blocks) : \A k \in 1..Len(blocks[b].addresses) :
    LET i == blocks[b].addresses[k]
        e == EarliestPosition(nodes, i)
    IN IF e < i THEN ReplacedBy(blocks[b], k, e) ELSE KeptAsIs(blocks[b], k)

C11_EarliestOccurrenceReplaces ==
  /\ HasRawBlocks => EarliestReplaces(input, rawBlocks)
  /\ HasTaggedBlocks => EarliestReplaces(tagged, taggedBlocks)

\* The statement of C11 with the empty normalized command set apart.
NonEmptyEarliestReplaces(nodes, blocks) ==
  \A b \in 1..Len(blocks) : \A k \in 1..Len(blocks[b].addresses) :
    LET i == blocks[b].addresses[k]
        e == EarliestPosition(nodes, i)
    IN IF normalizedCommandOf(nodes[i + 1]) # "" /\ e < i
       THEN ReplacedBy(blocks[b], k, e)
       ELSE KeptAsIs(blocks[b], k)

\* C11: for every node list given to detectFunctionBlocks, every block and
\* every address i of the block, with e the earliest position in the whole
\* list whose normalized command equals that of node i: if that command is
\* not empty and e < i, optimizedLines holds a(e+1) at i's place and
\* duplicateReplacements maps a(i+1) to a(e+1); otherwise (e = i, or the
\* command is blank or absent) optimizedLines holds a(i+1) and
\* duplicateReplacements has no key a(i+1).
C11_NonEmptyEarliestReplaces ==
  /\ HasRawBlocks => NonEmptyEarliestReplaces(input, rawBlocks)
  /\ HasTaggedBlocks => NonEmptyEarliestReplaces(tagged, taggedBlocks)

\* A block with a line whose first occurrence lies before the block's start.
C11_Witness ==
  /\ HasRawBlocks
  /\ \E b \in 1..Len(rawBlocks) : \E k \in 1..Len(rawBlocks[b].addresses) :
       /\ normalizedCommandOf(input[rawBlocks[b].addresses[k] + 1]) # ""
       /\ EarliestPosition(input, rawBlocks[b].addresses[k]) < rawBlocks[b].startAddress
       /\ rawBlocks[b].optimizedLines[k] # rawBlocks[b].originalLines[k]

\* The [startAddress, endAddress] ranges of a list of blocks.
RangesOf(blocks) == [b \in 1..Len(blocks) |-> <<blocks[b].startAddress, blocks[b].endAddress>>]

\* C12: for a list in index order, detectFunctionBlocks applied to the output
\* of detectCodeDuplicates returns as many blocks, with the same ranges, as
\* detectFunctionBlocks applied to the untagged list.
C12_TaggingKeepsSegmentation ==
  (HasTaggedBlocks /\ IsAscendingByIndex(input)) => RangesOf(taggedBlocks) = RangesOf(rawBlocks)

\* The start of the block that is open when the second pass reaches the node
\* at zero-based position i: the last function-start node before i, if no
\* return/merge node lies between it (included) and i (excluded).
OpenStartBefore(nodes, i) ==
  LET starts == {j \in 0..(i - 1) : IsStartNode(nodes[j + 1])}
      last == CHOOSE j \in starts : \A m \in starts : m <= j
  IN IF starts # {} /\ \A m \in last..(i - 1) : ~IsEndNode(nodes[m + 1])
     THEN Some(last) ELSE None

HasBlock(blocks, from, to) ==
  \E b \in 1..Len(blocks) : blocks[b].startAddress = from /\ blocks[b].endAddress = to

InSomeBlock(blocks, i) ==
  \E b \in 1..Len(blocks) : blocks[b].startAddress <= i /\ i <= blocks[b].endAddress

\* No block is open after position i: the nodes that follow i up to the next
\* function-start node belong to no block.
NothingOpenAfter(nodes, blocks, i) ==
  \A m \in (i + 1)..(Len(nodes) - 1) :
    (\A q \in (i + 1)..m : ~IsStartNode(nodes[q + 1])) => ~InSomeBlock(blocks, m)

StartClosesExclusive(nodes, blocks) ==
  \A i \in 0..(Len(nodes) - 1) :
    IsStartNode(nodes[i + 1]) =>
      LET open == OpenStartBefore(nodes, i)
      IN /\ Cardinality({b \in 1..Len(blocks) : blocks[b].startAddress = i}) = 1
         /\ IF open # None
            THEN /\ HasBlock(blocks, open[1], i - 1)
                 /\ \A b \in 1..Len(blocks) :
                      blocks[b].startAddress = open[1] => blocks[b].endAddress = i - 1
            ELSE \A b \in 1..Len(blocks) :
                   blocks[b].endAddress = i - 1 => (i >= 1 /\ IsEndNode(nodes[i]))

\* C14: a function-start node at position i met while a block is open closes
\* that block with endAddress = i - 1 and opens a block with startAddress = i;
\* met while no block is open it opens a block at i and closes nothing.
C14_StartClosesExclusive ==
  /\ HasRawBlocks => StartClosesExclusive(input, rawBlocks)
  /\ HasTaggedBlocks => StartClosesExclusive(tagged, taggedBlocks)

\* A function start met while a block is open, after a function start met
\* while none was open.
C14_Witness ==
  /\ HasRawBlocks
  /\ Len(input) >= 2
  /\ IsStartNode(input[1])
  /\ \E i \in 1..(Len(input) - 1) :
       /\ IsStartNode(input[i + 1])
       /\ ~IsEndNode(input[i + 1])
       /\ OpenStartBefore(input, i) = Some(0)

\* The start of the block that is open when the return/merge check is made
\* on the node at position i.
OpenStartAt(nodes, i) ==
  IF IsStartNode(nodes[i + 1]) THEN Some(i) ELSE OpenStartBefore(nodes, i)

ReturnClosesInclusive(nodes, blocks) ==
  /\ \A i \in 0..(Len(nodes) - 1) :
       IsEndNode(nodes[i + 1]) =>
         IF OpenStartAt(nodes, i) # None
         THEN /\ HasBlock(blocks, OpenStartAt(nodes, i)[1], i)
              /\ NothingOpenAfter(nodes, blocks, i)
         ELSE /\ ~InSomeBlock(blocks, i)
              /\ NothingOpenAfter(nodes, blocks, i)
  /\ OpenStartBefore(nodes, Len(nodes)) # None =>
       HasBlock(blocks, OpenStartBefore(nodes, Len(nodes))[1], Len(nodes) - 1)

\* C15: a return/merge node at position i closes the open block with
\* endAddress = i and leaves no block open; it does nothing when no block is
\* open; a block still open after the last node is closed with
\* endAddress = n - 1.
C15_ReturnClosesInclusive ==
  /\ HasRawBlocks => ReturnClosesInclusive(input, rawBlocks)
  /\ HasTaggedBlocks => ReturnClosesInclusive(tagged, taggedBlocks)

\* A return/merge node met while no block is open, and one that closes a
\* block opened before it.
C15_Witness ==
  /\ HasRawBlocks
  /\ \E i \in 0..(Len(input) - 1) :
       IsEndNode(input[i + 1]) /\ OpenStartAt(input, i) = None
  /\ \E i \in 1..(Len(input) - 1) :
       /\ IsEndNode(input[i + 1])
       /\ OpenStartBefore(input, i) # None
       /\ ~IsStartNode(input[i + 1])

StartThenReturn(nodes, blocks) ==
  \A i \in 0..(Len(nodes) - 1) :
    (IsStartNode(nodes[i + 1]) /\ IsEndNode(nodes[i + 1])) =>
      /\ OpenStartBefore(nodes, i) # None => HasBlock(blocks, OpenStartBefore(nodes, i)[1], i - 1)
      /\ HasBlock(blocks, i, i)
      /\ Cardinality({b \in 1..Len(blocks) : InSomeBlock(<<blocks[b]>>, i)}) = 1
      /\ NothingOpenAfter(nodes, blocks, i)

\* C16: a node at position i that is both a function-start and a return/merge
\* node closes the block open before it at i - 1, and opens and closes the
\* single-node block [i, i], leaving no block open.
C16_StartThenReturn ==
  /\ HasRawBlocks => StartThenReturn(input, rawBlocks)
  /\ HasTaggedBlocks => StartThenReturn(tagged, taggedBlocks)

\* A node that is a function start and a return at once, met while a block
\* is open: a function-start duplicate whose rewritten command holds "return".
C16_Witness ==
  /\ HasTaggedBlocks
  /\ \E i \in 1..(Len(tagged) - 1) :
       /\ IsStartNode(tagged[i + 1])
       /\ IsEndNode(tagged[i + 1])
       /\ OpenStartBefore(tagged, i) # None

WellFormedBlocks(nodes, blocks) ==
  /\ \A b \in 1..Len(blocks) :
       /\ blocks[b].startAddress <= blocks[b].endAddress
       /\ blocks[b].startAddress >= 0
       /\ blocks[b].endAddress <= Len(nodes) - 1
       /\ IsStartNode(nodes[blocks[b].startAddress + 1])
       /\ \A m \in (blocks[b].startAddress + 1)..blocks[b].endAddress : ~IsStartNode(nodes[m + 1])
       /\ \A m \in blocks[b].startAddress..(blocks[b].endAddress - 1) : ~IsEndNode(nodes[m + 1])
  /\ \A i \in 0..(Len(nodes) - 1) :
       (\A j \in 0..i : ~IsStartNode(nodes[j + 1])) => ~InSomeBlock(blocks, i)

\* C23: every block has startAddress <= endAddress, starts at a
\* function-start node, holds no function-start node after its first node
\* and no return/merge node before its last node; the positions before the
\* first function-start node belong to no block.
C23_BlocksWellFormed ==
  /\ HasRawBlocks => WellFormedBlocks(input, rawBlocks)
  /\ HasTaggedBlocks => WellFormedBlocks(tagged, taggedBlocks)

\* A return node before the first function start, and a block of two nodes.
C23_Witness ==
  /\ HasRawBlocks
  /\ Len(input) >= 3
  /\ IsEndNode(input[1])
  /\ ~IsStartNode(input[1])
  /\ Len(rawBlocks) = 1
  /\ rawBlocks[1].startAddress = 1
  /\ rawBlocks[1].endAddress = 2

\* C28: the k-th block returned by detectFunctionBlocks has id func-k, so
\* the ids of the blocks of a list are pairwise distinct.
BlockIdsNumbered(blocks) ==
  /\ \A k \in 1..Len(blocks) : blocks[k].id = "func-" \o ToString(k)
  /\ \A j, k \in 1..Len(blocks) : j # k => blocks[j].id # blocks[k].id

C28_BlockIdsNumbered ==
  /\ HasRawBlocks => BlockIdsNumbered(rawBlocks)
  /\ HasTaggedBlocks => BlockIdsNumbered(taggedBlocks)

\* Three blocks, the first two closed by the function start that follows.
C28_Witness ==
  /\ HasRawBlocks
  /\ Len(rawBlocks) >= 3
  /\ ~IsEndNode(input[1])
  /\ ~IsEndNode(input[2])

-----------------------------------------------------------------------------
(* Properties of buildAddressRegistry                                      *)

\* C9: the registry built from a list of n nodes has exactly the n distinct
\* keys a1..an, and the entry under a(i+1) records index i and the node at
\* position i.
C9_RegistryAddresses ==
  HasRegistry =>
    /\ DOMAIN builtRegistry = {"a" \o ToString(i) : i \in 1..Len(input)}
    /\ Cardinality(DOMAIN builtRegistry) = Len(input)
    /\ \A i \in 0..(Len(input) - 1) :
         /\ builtRegistry["a" \o ToString(i + 1)].index = i
         /\ builtRegistry["a" \o ToString(i + 1)].node = input[i + 1]

C9_Witness ==
  /\ HasRegistry
  /\ Len(input) >= 3
  /\ input[1] # input[2]

IsDigitChar(c) == c \in {"0", "1", "2", "3", "4", "5", "6", "7", "8", "9"}

\* The places of s where a match of a<digits> starts: an "a" followed by a
\* digit.  Matches cannot overlap, since a match holds no "a" after its first
\* character.
MatchStarts(s) ==
  {p \in 1..(Len(s) - 1) : SubSeq(s, p, p) = "a" /\ IsDigitChar(SubSeq(s, p + 1, p + 1))}

\* The place where the match that starts at p ends: the last of the digits
\* that follow the "a".
MatchEnd(s, p) ==
  CHOOSE q \in (p + 1)..Len(s) :
    /\ \A m \in (p + 1)..q : IsDigitChar(SubSeq(s, m, m))
    /\ q = Len(s) \/ ~IsDigitChar(SubSeq(s, q + 1, q + 1))

\* All substrings of s that match a<digits>, in order of occurrence.
MatchesOf(s) ==
  LET starts == AscendingSeq(MatchStarts(s))
  IN [k \in 1..Len(starts) |-> SubSeq(s, starts[k], MatchEnd(s, starts[k]))]

ExpectedDependencies(node, i) ==
  IF node.command = None THEN <<>>
  ELSE SelectSeq(MatchesOf(node.command[1]), LAMBDA m : m # AddressOf(i))

\* C18: the dependencies of the node at position i are all substrings of its
\* command that match a<digits>, in order of occurrence, without the matches
\* equal to the node's own address a(i+1) and with repeated matches kept; a
\* node without a command has none.
C18_DependenciesFromCommand ==
  HasRegistry =>
    \A i \in 0..(Len(input) - 1) :
      builtRegistry[AddressOf(i)].dependencies = ExpectedDependencies(input[i + 1], i)

\* A registry with a node that names another address twice, a node whose own
\* address is removed from between other matches, and a node without a command.
C18_Witness ==
  /\ HasRegistry
  /\ \E i \in 0..(Len(input) - 1) :
       LET deps == builtRegistry[AddressOf(i)].dependencies
       IN Len(deps) >= 2 /\ deps[1] = deps[2] /\ Len(deps) = Len(MatchesOf(input[i + 1].command[1]))
  /\ \E i \in 0..(Len(input) - 1) :
       LET deps == builtRegistry[AddressOf(i)].dependencies
       IN /\ input[i + 1].command # None
          /\ deps # <<>>
          /\ Len(deps) < Len(MatchesOf(input[i + 1].command[1]))
  /\ \E i \in 0..(Len(input) - 1) : input[i + 1].command = None

\* The address strings a block holds.
BlockAddressStrings(block) ==
  {block.originalLines[k] : k \in 1..Len(block.originalLines)}
    \cup {block.optimizedLines[k] : k \in 1..Len(block.optimizedLines)}
    \cup DOMAIN block.duplicateReplacements
    \cup {block.duplicateReplacements[r] : r \in DOMAIN block.duplicateReplacements}

\* C24: every address string in originalLines, optimizedLines and
\* duplicateReplacements of every block of a list is a key of the registry
\* built from the same list, and every replacement target is the address of
\* a position strictly before the position whose address it replaces.
C24_BlockAddressesInRegistry ==
  HasRegistry =>
    \A b \in 1..Len(rawBlocks) :
      /\ BlockAddressStrings(rawBlocks[b]) \subseteq DOMAIN builtRegistry
      /\ \A r \in DOMAIN rawBlocks[b].duplicateReplacements :
           \E i \in 0..(Len(input) - 1) : \E e \in 0..(i - 1) :
             r = AddressOf(i) /\ rawBlocks[b].duplicateReplacements[r] = AddressOf(e)

\* A block in which a line is replaced by the first line of the list.
C24_Witness ==
  /\ HasRegistry
  /\ \E b \in 1..Len(rawBlocks) : \E r \in DOMAIN rawBlocks[b].duplicateReplacements :
       rawBlocks[b].duplicateReplacements[r] = "a1"

-----------------------------------------------------------------------------
(* Properties of the summon pipeline                                       *)

\* The address a terminal command asks to summon, if it is one of the
\* a<number>, run <address> and summon <address> commands.
SummonTargetOf(command) ==
  LET tokens == splitOnSpace(trim(command))
  IN IF isAddressInput(tokens[1]) THEN Some(tokens[1])
     ELSE IF tokens[1] \in {"run", "summon"} /\ Len(tokens) >= 2 /\ tokens[2] # ""
          THEN Some(tokens[2])
          ELSE None

\* C8: a terminal command that summons an address that is not a key of the
\* registry reports a not-found error line, appends no pipeline call record,
\* starts no execution, and leaves activeSummons and the registry unchanged.
C8_UnknownAddressNotFound ==
  [][\A command \in CommandPool :
       (/\ TerminalCommand(command)
        /\ IsSome(SummonTargetOf(command))
        /\ Get(SummonTargetOf(command)) \notin DOMAIN addressRegistry)
       => /\ pipelineCalls' = pipelineCalls
          /\ activeSummons' = activeSummons
          /\ summons' = summons
          /\ addressRegistry' = addressRegistry
          /\ Len(terminalOutput') > Len(terminalOutput)
          /\ terminalOutput'[Len(terminalOutput')].type = "error"
          /\ includes(terminalOutput'[Len(terminalOutput')].content, "not found")]_vars

\* The events of a complete run of a block: for each entry of optimizedLines
\* in list order, the start of its summon and then its end.
RECURSIVE ExpectedRunEvents(_)
ExpectedRunEvents(addresses) ==
  IF addresses = <<>> THEN <<>>
  ELSE << <<"start", Head(addresses)>>, <<"end", Head(addresses)>> >> \o ExpectedRunEvents(Tail(addresses))

IsPrefix(p, q) == Len(p) <= Len(q) /\ SubSeq(q, 1, Len(p)) = p

\* The state part of C10.
RunInOrder ==
  /\ IsSome(run) => /\ runningBlock = Some(Get(run).block)
                    /\ runTrace.block = Some(Get(run).block)
                    /\ Get(run).phase = "summoning" =>
                         Len(SelectSeq(summons, LAMBDA task : task.origin = "run")) = 1
                    /\ Get(run).phase = "delay" =>
                         Len(SelectSeq(summons, LAMBDA task : task.origin = "run")) = 0
  /\ run = None => runningBlock = None
  /\ IsSome(runTrace.block) =>
       /\ IsPrefix(runTrace.events, ExpectedRunEvents(Get(runTrace.block).optimizedLines))
       /\ run = None => runTrace.events = ExpectedRunEvents(Get(runTrace.block).optimizedLines)

\* C10: a block run summons the entries of the block's optimizedLines in list
\* order, one summon per entry, each starting after the previous one has
\* ended; runningBlock is the block during the run and null after it; and
\* every run reaches its end.
C10_BlockRunSequential == []RunInOrder /\ (IsSome(run) ~> run = None)

\* A finished run of a block whose optimizedLines differ from its own
\* addresses, during which the terminal summoned another address.
C10_Witness ==
  /\ run = None
  /\ IsSome(runTrace.block)
  /\ Get(runTrace.block).optimizedLines # Get(runTrace.block).originalLines
  /\ Len(pipelineCalls) = 3
  /\ pipelineCalls[1].addressId = Get(runTrace.block).optimizedLines[1]
  /\ pipelineCalls[2].addressId = "a1"
  /\ pipelineCalls[3].addressId = Get(runTrace.block).optimizedLines[2]
  /\ \A k \in 1..3 : pipelineCalls[k].status = "completed"

\* C25: an address is listed in activeSummons exactly when a summon of it
\* has started and not yet finished; the pipeline is shown idle only when no
\* summon is in flight.
C25_ActiveSummonsAreInFlight ==
  /\ {activeSummons[k] : k \in 1..Len(activeSummons)} = {summons[k].addressId : k \in 1..Len(summons)}
  /\ activeSummons = <<>> => summons = <<>>

\* The places of the call records that a step changes.
ChangedCalls == {i \in 1..Len(pipelineCalls) : pipelineCalls'[i] # pipelineCalls[i]}

\* C26: a summon appends one call record, which is executing while the
\* summon is in flight and completed or failed once it has finished; a
\* finished record never changes, no record is removed, and the end of a
\* summon changes the record of that summon only.
C26_CallRecordLifecycle ==
  [][/\ Len(pipelineCalls') >= Len(pipelineCalls)
     /\ \A i \in 1..Len(pipelineCalls) :
          pipelineCalls[i].status \in {"completed", "failed"} => pipelineCalls'[i] = pipelineCalls[i]
     /\ \A k \in 1..Len(summons) :
          SummonFinish(k) =>
            /\ Cardinality(ChangedCalls) = 1
            /\ \A i \in ChangedCalls :
                 /\ pipelineCalls[i].addressId = summons[k].addressId
                 /\ pipelineCalls[i].status = "executing"
                 /\ pipelineCalls'[i].status = "completed"]_vars

-----------------------------------------------------------------------------
(* Properties of a file analysis                                           *)

\* The node list on display comes from a file analysis, not from the sample
\* data of the mount effect.
Analysed == spiralNodes # sampleProcesses

\* C19: every node produced from a list of lines carries an index that is a
\* unique integer equal to the node's zero-based position in the produced
\* sequence (detectCodeDuplicates keeps the nodes' index values and order).
C19_IndexIsPosition ==
  Analysed =>
    /\ \A k \in 1..Len(spiralNodes) : spiralNodes[k].index = (k - 1) * One
    /\ \A j, k \in 1..Len(spiralNodes) : j # k => spiralNodes[j].index # spiralNodes[k].index

\* C20: after the analysis of a file, for every node tagged isDuplicate the
\* address a(referenceTo+1) is a key of the registry, and the node of its
\* entry is the duplicate's primary: the node at the earliest position whose
\* normalized command, as generated, equals the duplicate's.
C20_ReferenceAddressIsPrimary ==
  [][\A lines \in FilePool :
       AnalyzeFile(lines) =>
         LET processes == generateDNAProcesses(lines)
         IN \A k \in 1..Len(spiralNodes') :
              spiralNodes'[k].isDuplicate = Some(TRUE) =>
                LET address == "a" \o NumToString(Get(spiralNodes'[k].referenceTo) + One)
                    primary == spiralNodes'[EarliestPosition(processes, k - 1) + 1]
                IN /\ address \in DOMAIN addressRegistry'
                   /\ addressRegistry'[address].node = primary]_vars

\* C21: the address registry is the one of the node list on display: its
\* keys are a1..an for the n nodes of spiralNodes and the node of the entry
\* under a(i+1) is the node at position i, also when an analysis has left
\* the list empty.
C21_RegistryOfCurrentNodes ==
  /\ DOMAIN addressRegistry = {"a" \o ToString(i) : i \in 1..Len(spiralNodes)}
  /\ \A i \in 1..Len(spiralNodes) : addressRegistry["a" \o ToString(i)].node = spiralNodes[i]
-----------------------------------------------------------------------------
(* Properties of an upload                                                 *)

Uploading == IsSome(upload)

\* The files processMultipleFiles is working on.
CurrentFiles == Get(upload).batches[Get(upload).batch]

NonBlankPlaces(content) == {k \in 1..Len(content) : trim(content[k]) # ""}

DistinctNormalized(content) == {toLowerCase(trim(content[k])) : k \in NonBlankPlaces(content)}

\* The counts the analysis of a file with this content should report.
FileCountsRight(analysis, content) ==
  /\ analysis.totalLines = Cardinality(NonBlankPlaces(content))
  /\ analysis.duplicateLines = analysis.totalLines - Cardinality(DistinctNormalized(content))
  /\ analysis.uniqueLines + analysis.duplicateLines = analysis.totalLines

RECURSIVE SumUpTo(_, _)
SumUpTo(numbers, n) == IF n = 0 THEN 0 ELSE numbers[n] + SumUpTo(numbers, n - 1)

\* C30: once processMultipleFiles has analysed its files, each file analysis
\* reports totalLines as the number of non-blank lines, duplicateLines as
\* totalLines minus the number of distinct normalized non-blank lines, and
\* uniqueLines + duplicateLines = totalLines; the project totals are the sums
\* of the per-file values over the files of the call.
C30_AnalysisCounts ==
  (Uploading /\ Get(upload).phase = "first") =>
    LET analysis == Get(projectAnalysis)
        n == Len(CurrentFiles)
    IN /\ Len(analysis.fileAnalyses) = n
       /\ analysis.totalFiles = n
       /\ \A k \in 1..n : FileCountsRight(analysis.fileAnalyses[k], CurrentFiles[k].content)
       /\ analysis.totalLines = SumUpTo([k \in 1..n |-> analysis.fileAnalyses[k].totalLines], n)
       /\ analysis.totalDuplicates =
            SumUpTo([k \in 1..n |-> analysis.fileAnalyses[k].duplicateLines], n)

\* Two files were analysed; one of them has a blank line and a line repeated
\* twice in another case, and both files count towards the totals.
C30_Witness ==
  /\ Uploading
  /\ Get(upload).phase = "first"
  /\ Len(CurrentFiles) = 2
  /\ \E k \in 1..2 :
       /\ Get(projectAnalysis).fileAnalyses[k].totalLines < Len(CurrentFiles[k].content)
       /\ Get(projectAnalysis).fileAnalyses[k].duplicateLines >= 1
       /\ \E i, j \in 1..Len(CurrentFiles[k].content) :
            /\ CurrentFiles[k].content[i] # CurrentFiles[k].content[j]
            /\ trim(CurrentFiles[k].content[i]) # ""
            /\ toLowerCase(trim(CurrentFiles[k].content[i])) = toLowerCase(trim(CurrentFiles[k].content[j]))
  /\ \A k \in 1..2 : Get(projectAnalysis).fileAnalyses[k].totalLines >= 1
  /\ Get(projectAnalysis).totalDuplicates >= 2

\* handleZipFile is in progress and has not yet processed its last batch.
BeforeLastBatchDone ==
  /\ Uploading
  /\ Get(upload).kind = "zip"
  /\ ~(Get(upload).phase = "delay" /\ Get(upload).batch = Len(Get(upload).batches))

\* C29: isAnalyzing is true from the start of handleZipFile until the last
\* batch has been processed, and false once handleZipFile has finished.
C29_AnalyzingThroughoutArchive ==
  /\ BeforeLastBatchDone => isAnalyzing
  /\ ~Uploading => ~isAnalyzing

\* handleZipFile finishes in this step, on an archive with a code file.
ZipFinishes ==
  /\ Uploading
  /\ Get(upload).kind = "zip"
  /\ upload' = None
  /\ ~Get(Get(upload).archive).corrupt
  /\ extractedFiles(Get(Get(upload).archive)) # <<>>

\* C22: the node list, the function blocks and the input text in place once
\* handleZipFile has finished are those of the first code file of the
\* archive.
C22_FirstCodeFileShown ==
  [][ZipFinishes =>
       LET first == extractedFiles(Get(Get(upload).archive))[1].content
           nodes == detectCodeDuplicates(generateDNAProcesses(first))
       IN /\ spiralNodes' = nodes
          /\ functionBlocks' = detectFunctionBlocks(nodes)
          /\ inputCode' = first]_vars

====
